---- MODULE Spec2Model ----
(***************************************************************************)
(* Model of the Cross DEX Arbitrage agent (src/src/index.ts).              *)
(*                                                                         *)
(* Units.  JavaScript numbers are modelled as exact decimals scaled to     *)
(* integers:                                                               *)
(*   USD amounts (profit_usd_per_1k, gas_cost_usd, net_profit_usd): cents  *)
(*   percentages (profit_percentage, min_profit_pct): 1/100 of a percent,  *)
(*     which is also the spread in basis points                            *)
(*   prices (buy_price, sell_price): 1/10000 USD                           *)
(* Strings that the code inspects character by character (token addresses) *)
(* are sequences of one-character strings.  An optional value (a missing   *)
(* argument, header or environment variable) is a record                   *)
(* [defined |-> BOOLEAN, value |-> ...].                                   *)
(***************************************************************************)
EXTENDS Integers, Sequences, FiniteSets, TLC

VARIABLES
    INTERNAL_API_KEY,  \* process.env.INTERNAL_API_KEY, fixed at process start
    FREE_MODE,         \* payment enforcement is off (free_mode), fixed at process start
    now,               \* the wall clock read by new Date()
    inflight,          \* the requests in flight: each one's position, locals and response
    lastRun,           \* the list of the latest findArbitrage call, while a handler awaits one
    previous,          \* the response of the run before, when `request` was re-sent unchanged
    other,             \* the response of the other endpoint, when the same input was sent to both
    reqState,          \* orchestrator: state of the detection request
    chains,            \* orchestrator: the chains the detection request names
    buffer,            \* orchestrator: result buffer, one slot per requested chain
    completed,         \* orchestrator: chains in the order their tasks completed
    ranked,            \* orchestrator: the Ranker's output
    report,            \* orchestrator: the final report
    script,            \* test_endpoints.sh: position, counters and exit of one run
    answers            \* test_endpoints.sh: what the server under test gives each test

\* the variables of the orchestrator of one detection request
detection == <<reqState, chains, buffer, completed, ranked, report>>

\* the variables of a run of the endpoint test script
testing == <<script, answers>>

\* the variables of the requests in flight
concurrent == <<inflight, lastRun>>

\* the process and the memory of the client under observation
server == <<INTERNAL_API_KEY, FREE_MODE, now, previous, other>>

vars == <<INTERNAL_API_KEY, FREE_MODE, now, inflight, lastRun, previous, other,
          reqState, chains, buffer, completed, ranked, report,
          script, answers>>

\* The request under observation is the one of the first slot: its position
\* ("free" | "received" | "reading" | "awaiting" | "done"), the request, its
\* response once pc = "done", and whether findArbitrage was invoked for it.
pc == inflight[1].pc
request == inflight[1].request
response == inflight[1].response
ran == inflight[1].ran

----------------------------------------------------------------------------
(* Bounds of the model *)

\* the clock stops after this many ticks
MaxClock == 1
\* longest token_addresses list a request carries
MaxFilterLen == 2
\* most requests in flight at once
MaxInflight == 2

----------------------------------------------------------------------------
(* Optional values *)

Undefined == [defined |-> FALSE, value |-> <<>>]
Some(v) == [defined |-> TRUE, value |-> v]

----------------------------------------------------------------------------
(* String.prototype.toLowerCase on sequences of characters *)

\* The cased letters of the model's alphabet and their lower case: the Latin
\* letters of ASCII and of Latin-1 (the characters a string of this module can
\* hold).  Every one of them lower-cases to one character whatever surrounds
\* it; a character outside this table is taken to have no lower case of its own.
UpperToLower ==
    "A" :> "a" @@ "B" :> "b" @@ "C" :> "c" @@ "D" :> "d" @@ "E" :> "e" @@
    "F" :> "f" @@ "G" :> "g" @@ "H" :> "h" @@ "I" :> "i" @@ "J" :> "j" @@
    "K" :> "k" @@ "L" :> "l" @@ "M" :> "m" @@ "N" :> "n" @@ "O" :> "o" @@
    "P" :> "p" @@ "Q" :> "q" @@ "R" :> "r" @@ "S" :> "s" @@ "T" :> "t" @@
    "U" :> "u" @@ "V" :> "v" @@ "W" :> "w" @@ "X" :> "x" @@ "Y" :> "y" @@
    "Z" :> "z" @@ "À" :> "à" @@ "Á" :> "á" @@ "Â" :> "â" @@ "Ã" :> "ã" @@
    "Ä" :> "ä" @@ "Å" :> "å" @@ "Æ" :> "æ" @@ "Ç" :> "ç" @@ "È" :> "è" @@
    "É" :> "é" @@ "Ê" :> "ê" @@ "Ë" :> "ë" @@ "Ì" :> "ì" @@ "Í" :> "í" @@
    "Î" :> "î" @@ "Ï" :> "ï" @@ "Ð" :> "ð" @@ "Ñ" :> "ñ" @@ "Ò" :> "ò" @@
    "Ó" :> "ó" @@ "Ô" :> "ô" @@ "Õ" :> "õ" @@ "Ö" :> "ö" @@ "Ø" :> "ø" @@
    "Ù" :> "ù" @@ "Ú" :> "ú" @@ "Û" :> "û" @@ "Ü" :> "ü" @@ "Ý" :> "ý" @@
    "Þ" :> "þ"

toLowerCase(s) ==
    [i \in 1..Len(s) |-> IF s[i] \in DOMAIN UpperToLower THEN UpperToLower[s[i]] ELSE s[i]]

----------------------------------------------------------------------------
(* The literals of the mock candidate list *)

USDC_ADDRESS ==
    <<"0","x","A","0","b","8","6","9","9","1","c","6","2","1","8","b","3","6","c","1","d",
      "1","9","D","4","a","2","e","9","E","b","0","c","E","3","6","0","6","e","B","4","8">>

WETH_ADDRESS ==
    <<"0","x","C","0","2","a","a","A","3","9","b","2","2","3","F","E","8","D","0","A","0",
      "e","5","C","4","F","2","7","e","A","D","9","0","8","3","C","7","5","6","C","c","2">>

USDT_ADDRESS ==
    <<"0","x","d","A","C","1","7","F","9","5","8","D","2","e","e","5","2","3","a","2","2",
      "0","6","2","0","6","9","9","4","5","9","7","C","1","3","D","8","3","1","e","c","7">>

----------------------------------------------------------------------------
(* CHAIN_GAS_COSTS and the gas cost of a chain, in cents *)

CHAIN_GAS_COSTS ==
    1 :> 500 @@ 8453 :> 1 @@ 42161 :> 15 @@ 10 :> 5 @@ 137 :> 2 @@ 56 :> 8

\* const gasCost = CHAIN_GAS_COSTS[chainId] || 2.5;
\* `||` takes the right operand when the left one is undefined or 0.
gasCostFor(chainId) ==
    IF chainId \in DOMAIN CHAIN_GAS_COSTS /\ CHAIN_GAS_COSTS[chainId] # 0
    THEN CHAIN_GAS_COSTS[chainId]
    ELSE 250

----------------------------------------------------------------------------
(* The candidate list of findArbitrage *)

\* Mutant: executable looks at the gross profit, not at the profit net of gas.
Opportunity_grossExecutable(symbol, address, buyDex, sellDex, buy, sell, pct, per1k, gasCost, net) ==
    [ token_symbol      |-> symbol,
      token_address     |-> address,
      buy_dex           |-> buyDex,
      sell_dex          |-> sellDex,
      buy_price         |-> buy,
      sell_price        |-> sell,
      profit_percentage |-> pct,
      profit_usd_per_1k |-> per1k,
      gas_cost_usd      |-> gasCost,
      net_profit_usd    |-> net,
      executable        |-> per1k > 0 ]

Opportunity(symbol, address, buyDex, sellDex, buy, sell, pct, per1k, gasCost, net) ==
    [ token_symbol      |-> symbol,
      token_address     |-> address,
      buy_dex           |-> buyDex,
      sell_dex          |-> sellDex,
      buy_price         |-> buy,
      sell_price        |-> sell,
      profit_percentage |-> pct,
      profit_usd_per_1k |-> per1k,
      gas_cost_usd      |-> gasCost,
      net_profit_usd    |-> net,
      executable        |-> net > 0 ]

\* Mutant: the gas cost is added to the gross profit instead of subtracted.
mockOpportunities_addGas(gasCost) ==
    << Opportunity("USDC", USDC_ADDRESS, "Uniswap V3", "SushiSwap",
                   9980, 10020, 40, 400, gasCost, 400 + gasCost),
       Opportunity("WETH", WETH_ADDRESS, "Curve", "Balancer",
                   24855000, 24978000, 49, 490, gasCost, 490 + gasCost),
       Opportunity("USDT", USDT_ADDRESS, "Uniswap V2", "Pancakeswap",
                   9985, 10005, 20, 200, gasCost, 200 + gasCost) >>

\* Mutant: two digits of the WETH sell price are transposed (2479.8 for 2497.8).
mockOpportunities_typo(gasCost) ==
    << Opportunity("USDC", USDC_ADDRESS, "Uniswap V3", "SushiSwap",
                   9980, 10020, 40, 400, gasCost, 400 - gasCost),
       Opportunity("WETH", WETH_ADDRESS, "Curve", "Balancer",
                   24855000, 24798000, 49, 490, gasCost, 490 - gasCost),
       Opportunity("USDT", USDT_ADDRESS, "Uniswap V2", "Pancakeswap",
                   9985, 10005, 20, 200, gasCost, 200 - gasCost) >>

mockOpportunities(gasCost) ==
    << Opportunity("USDC", USDC_ADDRESS, "Uniswap V3", "SushiSwap",
                   9980, 10020, 40, 400, gasCost, 400 - gasCost),
       Opportunity("WETH", WETH_ADDRESS, "Curve", "Balancer",
                   24855000, 24978000, 49, 490, gasCost, 490 - gasCost),
       Opportunity("USDT", USDT_ADDRESS, "Uniswap V2", "Pancakeswap",
                   9985, 10005, 20, 200, gasCost, 200 - gasCost) >>

----------------------------------------------------------------------------
(* The two filters of findArbitrage; Array.prototype.filter is SelectSeq *)

\* Mutant: the threshold comparison is strict.
passesThreshold_strict(opp, minProfitPct) == opp.profit_percentage > minProfitPct

\* (opp) => opp.profit_percentage >= minProfitPct
passesThreshold(opp, minProfitPct) == opp.profit_percentage >= minProfitPct

\* Mutant: the addresses are compared as given, without lower-casing.
matchesToken_caseSensitive(opp, tokenAddresses) ==
    \E i \in 1..Len(tokenAddresses) : opp.token_address = tokenAddresses[i]

\* tokenAddresses.some((addr) => opp.token_address?.toLowerCase() === addr.toLowerCase())
matchesToken(opp, tokenAddresses) ==
    \E i \in 1..Len(tokenAddresses) :
        toLowerCase(opp.token_address) = toLowerCase(tokenAddresses[i])

\* Mutant: opportunities that are not executable are dropped.
findArbitrage_executableOnly(chainId, minProfitPct, tokenAddresses) ==
    LET gasCost == gasCostFor(chainId)
        opportunities ==
            SelectSeq(mockOpportunities(gasCost),
                      LAMBDA opp : passesThreshold(opp, minProfitPct) /\ opp.executable)
    IN  IF tokenAddresses.defined /\ Len(tokenAddresses.value) > 0
        THEN SelectSeq(opportunities,
                       LAMBDA opp : matchesToken(opp, tokenAddresses.value))
        ELSE opportunities

RECURSIVE byProfitDescending(_)
\* a list of opportunities sorted by profit_percentage, highest first
byProfitDescending(opps) ==
    IF opps = <<>> THEN <<>>
    ELSE LET best == CHOOSE i \in 1..Len(opps) :
                         \A j \in 1..Len(opps) :
                             opps[i].profit_percentage >= opps[j].profit_percentage
         IN  <<opps[best]>> \o
             byProfitDescending(SubSeq(opps, 1, best - 1) \o SubSeq(opps, best + 1, Len(opps)))

\* Mutant: the result is sorted by profit_percentage, highest first.
findArbitrage_bestFirst(chainId, minProfitPct, tokenAddresses) ==
    LET gasCost == gasCostFor(chainId)
        opportunities ==
            SelectSeq(mockOpportunities(gasCost),
                      LAMBDA opp : passesThreshold(opp, minProfitPct))
    IN  byProfitDescending(
            IF tokenAddresses.defined /\ Len(tokenAddresses.value) > 0
            THEN SelectSeq(opportunities,
                           LAMBDA opp : matchesToken(opp, tokenAddresses.value))
            ELSE opportunities)

\* async function findArbitrage(chainId, minProfitPct, tokenAddresses?)
findArbitrage(chainId, minProfitPct, tokenAddresses) ==
    LET gasCost == gasCostFor(chainId)
        opportunities ==
            SelectSeq(mockOpportunities(gasCost),
                      LAMBDA opp : passesThreshold(opp, minProfitPct))
    IN  IF tokenAddresses.defined /\ Len(tokenAddresses.value) > 0
        THEN SelectSeq(opportunities,
                       LAMBDA opp : matchesToken(opp, tokenAddresses.value))
        ELSE opportunities

----------------------------------------------------------------------------
(* Requests a client can send *)

\* chain_id: the six listed chains and Avalanche, which CHAIN_GAS_COSTS does not list
ChainIds == {1, 8453, 42161, 10, 137, 56, 43114}

\* min_profit_pct, in 1/100 of a percent: 0, 0.2, 0.4, 0.49, 0.5
MinProfitPcts == {0, 20, 40, 49, 50}

WETH_UPPER ==
    <<"0","X","C","0","2","A","A","A","3","9","B","2","2","3","F","E","8","D","0","A","0",
      "E","5","C","4","F","2","7","E","A","D","9","0","8","3","C","7","5","6","C","C","2">>

DAI_ADDRESS ==
    <<"0","x","6","B","1","7","5","4","7","4","E","8","9","0","9","4","C","4","4","D","a",
      "9","8","b","9","5","4","E","e","d","e","A","C","4","9","5","2","7","1","d","0","F">>

\* addresses a client may name: one upper-cased throughout, one as the candidate
\* list spells it, one of no candidate
AddressPool == {WETH_UPPER, USDT_ADDRESS, DAI_ADDRESS}

AddressLists == UNION {[1..n -> AddressPool] : n \in 0..MaxFilterLen}

\* token_addresses is optional: absent, or a list (possibly empty)
TokenAddressChoices == {Undefined} \cup {Some(l) : l \in AddressLists}

\* the chains that requests with a token filter name: the dearest and the
\* cheapest in gas
FilterChains == {1, 8453}

\* the valid inputs the clients send: every chain with every threshold, and on
\* the chains of FilterChains with every choice of token_addresses as well
ValidInputs ==
    [chain_id : ChainIds, min_profit_pct : MinProfitPcts, token_addresses : {Undefined}]
        \cup [chain_id : FilterChains, min_profit_pct : MinProfitPcts,
              token_addresses : TokenAddressChoices]

\* inputs sent along where the answer does not depend on them
SampleInputs ==
    {[chain_id |-> 1, min_profit_pct |-> 0, token_addresses |-> Undefined],
     [chain_id |-> 8453, min_profit_pct |-> 40, token_addresses |-> Some(<<WETH_UPPER>>)]}

\* JSON values of a request body: a number, a string, a key that is not there
Num(n) == [type |-> "number", number |-> n, string |-> ""]
Str(s) == [type |-> "string", number |-> 0, string |-> s]
Missing == [type |-> "undefined", number |-> 0, string |-> ""]

\* the JSON object that spells input i, with an amount_in key or without
JsonBody(i, amount) ==
    [ kind            |-> "json",
      chain_id        |-> Num(i.chain_id),
      min_profit_pct  |-> Num(i.min_profit_pct),
      token_addresses |-> i.token_addresses,
      amount_in       |-> amount ]

\* bodies the schema accepts although they carry a key it does not know: amount_in = 0
ExtraKeyBodies == {JsonBody(i, Num(0)) : i \in SampleInputs}

\* request bodies that do not pass: text that is not JSON, JSON that the schema rejects
BadBodies ==
    {[kind |-> "not_json"]} \cup
    {[JsonBody(i, Missing) EXCEPT !.chain_id = Missing] : i \in SampleInputs} \cup
    {[JsonBody(i, Missing) EXCEPT !.chain_id = Str("1")] : i \in SampleInputs} \cup
    {[JsonBody(i, Num(0)) EXCEPT !.min_profit_pct = Missing] : i \in SampleInputs} \cup
    {[JsonBody(i, Missing) EXCEPT !.min_profit_pct = Str("0.5")] : i \in SampleInputs} \cup
    {[JsonBody(i, Missing) EXCEPT !.chain_id = Missing, !.min_profit_pct = Str("0.5")] :
        i \in SampleInputs}

\* request bodies of the internal endpoint
Bodies == {JsonBody(i, Missing) : i \in ValidInputs} \cup ExtraKeyBodies \cup BadBodies

\* a body sent along with a missing or wrong key
SampleBodies ==
    {[kind |-> "not_json"]} \cup {JsonBody(i, Missing) : i \in SampleInputs}

\* values of INTERNAL_API_KEY: unset, empty, set
EnvKeys == {Undefined, Some(""), Some("k1")}

\* values of the X-Internal-API-Key header: the configured key; none or another one
GoodHeaderKeys == {Some("k1")}
BadHeaderKeys == {Undefined, Some("k2")}

\* values of the X-Payment-TxHash header: a payment, none
Payment == Some("0xtx")
NoPayment == Undefined

NoRequest == [endpoint |-> "none"]
NoResponse == [status |-> 0]

EntrypointRequests ==
    {[endpoint |-> "entrypoint", payment |-> Payment, input |-> i] : i \in ValidInputs}
        \cup {[endpoint |-> "entrypoint", payment |-> NoPayment, input |-> i] :
                  i \in SampleInputs}
InternalRequests ==
    {[endpoint |-> "internal", apiKey |-> k, body |-> b] : k \in GoodHeaderKeys, b \in Bodies}
        \cup {[endpoint |-> "internal", apiKey |-> k, body |-> b] :
                  k \in BadHeaderKeys, b \in SampleBodies}
HealthRequests == {[endpoint |-> "health"]}

----------------------------------------------------------------------------
(* Reading and validating the body of an internal request *)

\* await c.req.json(): the parsed body, or the SyntaxError it throws
reqJson(body) ==
    IF body.kind = "json"
    THEN [ok |-> TRUE, value |-> body]
    ELSE [ok |-> FALSE, message |-> "Unexpected token in JSON"]

\* the issue z.number() raises on the value of a key: none for a number,
\* "Required" for a missing key, the received type otherwise
zodIssue(key, v) ==
    IF v.type = "number" THEN <<>>
    ELSE IF v.type = "undefined" THEN <<key \o ": Required">>
    ELSE <<key \o ": Expected number, received " \o v.type>>

\* the message of a ZodError: all its issues, in the order of the schema's keys
zodMessage(issues) ==
    IF Len(issues) = 1 THEN issues[1] ELSE issues[1] \o "; " \o issues[2]

\* ArbitrageInputSchema.parse(input): the validated input, stripped of the keys
\* the schema does not name, or the ZodError it throws
ArbitrageInputSchema_parse(input) ==
    LET issues == zodIssue("chain_id", input.chain_id) \o
                  zodIssue("min_profit_pct", input.min_profit_pct)
    IN  IF issues # <<>>
        THEN [ok |-> FALSE, message |-> zodMessage(issues)]
        ELSE [ok |-> TRUE,
              data |-> [ chain_id        |-> input.chain_id.number,
                         min_profit_pct  |-> input.min_profit_pct.number,
                         token_addresses |-> input.token_addresses ]]

----------------------------------------------------------------------------
(* Payment of the paid entrypoint *)

\* defaultPrice: "$0.10", in cents
defaultPrice == 10
\* price: "$0.10" of the cross-dex-arbitrage entrypoint, in cents
price == 10

\* a USD price in the smallest units of USDC (6 decimals)
toAtomicUnits(cents) == cents * 10000

\* Mutant: payment is asked for in free mode only.
paymentRequired_inverted(free_mode, x_payment_txhash) ==
    free_mode /\ (~x_payment_txhash.defined \/ x_payment_txhash.value = "")

\* if not free_mode and not x_payment_txhash
paymentRequired(free_mode, x_payment_txhash) ==
    ~free_mode /\ (~x_payment_txhash.defined \/ x_payment_txhash.value = "")

\* the document of an x402 response that asks for maxAmountRequired, a decimal
\* string of smallest units of the asset: one payment requirement in accepts,
\* with the network, the payee and the asset of config.payments
x402Response(maxAmountRequired) ==
    [ x402Version |-> 1,
      accepts     |-> << [ scheme            |-> "exact",
                           network           |-> "base",
                           maxAmountRequired |-> maxAmountRequired,
                           resource          |-> "...",
                           description       |-> "...",
                           mimeType          |-> "application/json",
                           payTo             |-> "0x01D11F7e1a46AbFC6092d7be484895D2d505095c",
                           maxTimeoutSeconds |-> 30,
                           asset             |-> "0x833589fCD6eDb6E08f4c7C32D4f71b54bdA02913" ] >> ]

\* the 402 answer of the cross-dex-arbitrage entrypoint to a request that has
\* not paid: it asks for the price the entrypoint is registered with, "$0.10",
\* which is 100000 smallest units, where the repository's documents show 50000
PaymentRequiredBody == x402Response(ToString(toAtomicUnits(price)))

\* no run of the test script
NoScript == [pc |-> 0, PASS |-> 0, FAIL |-> 0, exited |-> FALSE, status |-> 0, summary |-> FALSE,
             waiting |-> FALSE]
\* the place of a route where there is none
NoRoute == [chain_id |-> 0, dex_source |-> 0, profit_usd |-> 0, confidence_score |-> 0,
            gas_cost_usd |-> 0]
\* no report yet
NoReport ==
    [ status |-> "none", best_route |-> NoRoute, alt_routes |-> <<>>,
      skipped |-> {}, error |-> "" ]

----------------------------------------------------------------------------
(* The state machine.  The handlers are async functions: a request in flight *)
(* gives way to the others at each await, so a handler is one step up to    *)
(* each of its awaits and one step after the last.                          *)

Slots == 1..MaxInflight

\* a slot that has no request
FreeSlot ==
    [pc |-> "free", request |-> NoRequest, opportunities |-> <<>>,
     response |-> NoResponse, ran |-> FALSE, raced |-> FALSE]

\* a slot whose request has just arrived
received(r) == [FreeSlot EXCEPT !.pc = "received", !.request = r]

\* the requests that are in flight together with others
ConcurrentRequests ==
    {[endpoint |-> "entrypoint", payment |-> Payment, input |-> i] : i \in SampleInputs}
        \cup {[endpoint |-> "entrypoint", payment |-> NoPayment, input |-> i] :
                  i \in {CHOOSE j \in SampleInputs : j.chain_id = 1}}
        \cup {[endpoint |-> "internal", apiKey |-> k, body |-> b] :
                  k \in GoodHeaderKeys, b \in SampleBodies}
        \cup {[endpoint |-> "internal", apiKey |-> Some("k2"), body |-> b] :
                  b \in {[kind |-> "not_json"]}}

\* no request is in flight next to the one under observation
alone == \A s \in DOMAIN inflight : s # 1 => inflight[s].pc = "free"

Init ==
    /\ INTERNAL_API_KEY \in EnvKeys
    /\ FREE_MODE \in BOOLEAN
    /\ now = 0
    /\ inflight = <<FreeSlot, FreeSlot>>
    /\ lastRun = <<>>
    /\ previous = NoResponse
    /\ other = NoResponse
    /\ reqState = "none"
    /\ chains = {}
    /\ buffer = <<>>
    /\ completed = <<>>
    /\ ranked = <<>>
    /\ report = NoReport
    /\ script = NoScript
    /\ answers = <<>>

\* Time passes.
Tick ==
    /\ now < MaxClock
    /\ now' = now + 1
    /\ UNCHANGED <<detection, testing, concurrent, INTERNAL_API_KEY, FREE_MODE, previous, other>>

\* The client under observation sends a new request; next to requests already
\* in flight it sends one of ConcurrentRequests.
Submit(r) ==
    /\ pc = "free"
    /\ alone \/ r \in ConcurrentRequests
    /\ inflight' = [inflight EXCEPT ![1] = received(r)]
    /\ previous' = NoResponse
    /\ other' = NoResponse
    /\ UNCHANGED <<detection, testing, lastRun, INTERNAL_API_KEY, FREE_MODE, now>>

\* The client sends the request it sent last once more, unchanged.
Resubmit ==
    /\ pc = "done"
    /\ inflight' = [inflight EXCEPT ![1] = received(request)]
    /\ previous' = response
    /\ other' = NoResponse
    /\ UNCHANGED <<detection, testing, lastRun, INTERNAL_API_KEY, FREE_MODE, now>>

\* the input a served request carried, as the handler saw it
servedInput(r) ==
    IF r.endpoint = "entrypoint" THEN r.input ELSE ArbitrageInputSchema_parse(r.body).data

\* A client that got a result from one endpoint sends the same input to the
\* other one: with a payment to the entrypoint, with a key to the internal endpoint.
CrossSubmit ==
    /\ pc = "done"
    /\ response.status = 200
    /\ request.endpoint \in {"entrypoint", "internal"}
    /\ \/ /\ request.endpoint = "entrypoint"
          /\ \E k \in GoodHeaderKeys :
                 inflight' = [inflight EXCEPT ![1] =
                                 received([endpoint |-> "internal", apiKey |-> k,
                                           body |-> JsonBody(servedInput(request), Missing)])]
       \/ /\ request.endpoint = "internal"
          /\ inflight' = [inflight EXCEPT ![1] =
                             received([endpoint |-> "entrypoint", payment |-> Payment,
                                       input |-> servedInput(request)])]
    /\ other' = response
    /\ previous' = NoResponse
    /\ UNCHANGED <<detection, testing, lastRun, INTERNAL_API_KEY, FREE_MODE, now>>

\* The client has its response; its slot is free for its next request.
Deliver ==
    /\ pc = "done"
    /\ inflight' = [inflight EXCEPT ![1] = FreeSlot]
    /\ previous' = NoResponse
    /\ other' = NoResponse
    /\ UNCHANGED <<detection, testing, lastRun, INTERNAL_API_KEY, FREE_MODE, now>>

\* A request of another client arrives.
Arrive(s, r) ==
    /\ inflight[s].pc = "free"
    /\ inflight' = [inflight EXCEPT ![s] = received(r)]
    /\ UNCHANGED <<server, detection, testing, lastRun>>

\* A request of another client arrives next to the one under observation, which
\* is one of ConcurrentRequests or yet to be sent.
ArriveMeanwhile(s, r) ==
    /\ s # 1
    /\ pc = "free" \/ request \in ConcurrentRequests
    /\ Arrive(s, r)

\* Mutant: total_found counts the candidates scanned, not the opportunities returned.
Result_countScanned(opportunities) ==
    [ opportunities |-> opportunities,
      total_found   |-> 3,
      timestamp     |-> now ]

\* the result object both handlers build from findArbitrage's list
Result(opportunities) ==
    [ opportunities |-> opportunities,
      total_found   |-> Len(opportunities),
      timestamp     |-> now ]

\* the handler's call of findArbitrage
entrypointDetect(input) ==
    findArbitrage(input.chain_id, input.min_profit_pct, input.token_addresses)

\* the slot ends with this response
answered(slot, resp) == [slot EXCEPT !.pc = "done", !.response = resp]

\* Mutant: the list of a detection run is kept in a cache of the module, which a
\* call made while another run is pending answers from.
called_cached(slot, opportunities) ==
    [slot EXCEPT !.pc = "awaiting",
                 !.opportunities = IF lastRun # <<>> THEN lastRun ELSE opportunities,
                 !.ran = TRUE]

\* the slot has called findArbitrage and waits for its promise
called(slot, opportunities) ==
    [slot EXCEPT !.pc = "awaiting", !.opportunities = opportunities, !.ran = TRUE]

\* Mutant: opportunities is one binding of the module, not one of each call, so a
\* handler resumes with the list of the latest call.
awaited_global(own, latest) == latest

\* const opportunities = await findArbitrage(...): the handler resumes with the
\* list of its own call
awaited(own, latest) == own

\* POST /entrypoints/cross-dex-arbitrage/invoke: the payment check, then
\* addEntrypoint({ key: "cross-dex-arbitrage", ..., async handler({ input }) {...} })
\* up to await findArbitrage(...).
EntrypointCall(s) ==
    /\ inflight[s].pc = "received"
    /\ inflight[s].request.endpoint = "entrypoint"
    /\ IF paymentRequired(FREE_MODE, inflight[s].request.payment)
       THEN /\ inflight' = [inflight EXCEPT
                               ![s] = answered(@, [status |-> 402, body |-> PaymentRequiredBody])]
            /\ UNCHANGED lastRun
       ELSE LET opportunities == entrypointDetect(inflight[s].request.input)
            IN  /\ inflight' = [inflight EXCEPT ![s] = called(@, opportunities)]
                /\ lastRun' = opportunities
    /\ UNCHANGED <<server, detection, testing>>

\* Mutant: a request that sends no key is not checked.
keyMismatch_whenSent(apiKey, expectedKey) == apiKey.defined /\ apiKey # expectedKey

\* apiKey !== expectedKey
keyMismatch(apiKey, expectedKey) == apiKey # expectedKey

\* Mutant: the token filter is not passed on.
internalDetect_noTokens(validatedInput) ==
    findArbitrage(validatedInput.chain_id, validatedInput.min_profit_pct, Undefined)

\* the internal endpoint's call of findArbitrage
internalDetect(validatedInput) ==
    findArbitrage(validatedInput.chain_id,
                  validatedInput.min_profit_pct,
                  validatedInput.token_addresses)

\* the answer of the catch block to a thrown Error
caught(message) == [status |-> 500, body |-> [error |-> message]]

\* Mutant: only an empty key counts as not configured.
keyNotSet_onlyEmpty(expectedKey) == expectedKey.defined /\ expectedKey.value = ""

\* !expectedKey: undefined and the empty string are falsy
keyNotSet(expectedKey) == ~expectedKey.defined \/ expectedKey.value = ""

\* wrapperApp.post("/api/internal/cross-dex-arbitrage", async (c) => {...}) up
\* to await c.req.json(): the two key checks.
InternalKeyCheck(s) ==
    /\ inflight[s].pc = "received"
    /\ inflight[s].request.endpoint = "internal"
    /\ inflight' =
           [inflight EXCEPT ![s] =
               IF keyNotSet(INTERNAL_API_KEY)
               THEN answered(@, [status |-> 500,
                                 body |-> [error |-> "Server configuration error"]])
               ELSE IF keyMismatch(@.request.apiKey, INTERNAL_API_KEY)
               THEN answered(@, [status |-> 401, body |-> [error |-> "Unauthorized"]])
               ELSE [@ EXCEPT !.pc = "reading"]]
    /\ UNCHANGED <<server, detection, testing, lastRun>>

\* The internal endpoint from the body it has read to await findArbitrage(...).
InternalCall(s) ==
    /\ inflight[s].pc = "reading"
    /\ LET input == reqJson(inflight[s].request.body)
           validatedInput == ArbitrageInputSchema_parse(input.value)
       IN  IF ~input.ok
           THEN /\ inflight' = [inflight EXCEPT ![s] = answered(@, caught(input.message))]
                /\ UNCHANGED lastRun
           ELSE IF ~validatedInput.ok
           THEN /\ inflight' = [inflight EXCEPT
                                   ![s] = answered(@, caught(validatedInput.message))]
                /\ UNCHANGED lastRun
           ELSE LET opportunities == internalDetect(validatedInput.data)
                IN  /\ inflight' = [inflight EXCEPT ![s] = called(@, opportunities)]
                    /\ lastRun' = opportunities
    /\ UNCHANGED <<server, detection, testing>>

\* Either handler after await findArbitrage(...): the result object, stamped
\* with the clock as it reads now.
Respond(s) ==
    /\ inflight[s].pc = "awaiting"
    /\ LET slot == inflight[s]
           result == Result(awaited(slot.opportunities, lastRun))
       IN  inflight' =
               [inflight EXCEPT ![s] =
                   [answered(slot, [status |-> 200, body |-> result])
                       EXCEPT !.raced = (lastRun # slot.opportunities)]]
    /\ lastRun' = IF \E t \in DOMAIN inflight : t # s /\ inflight[t].pc = "awaiting"
                  THEN lastRun
                  ELSE <<>>
    /\ UNCHANGED <<server, detection, testing>>

\* Mutant: /health sits behind the payment check like the entrypoint.
healthAnswer_paid(free_mode, x_payment_txhash) ==
    IF paymentRequired(free_mode, x_payment_txhash)
    THEN [status |-> 402, body |-> PaymentRequiredBody]
    ELSE [status |-> 200, body |-> [status |-> "ok"]]

\* honoApp.get('/health', (c) => c.json({ status: 'ok' }))
healthAnswer(free_mode, x_payment_txhash) == [status |-> 200, body |-> [status |-> "ok"]]

\* GET /health, sent with no payment and no key
HealthHandler(s) ==
    /\ inflight[s].pc = "received"
    /\ inflight[s].request.endpoint = "health"
    /\ inflight' = [inflight EXCEPT ![s] = answered(@, healthAnswer(FREE_MODE, NoPayment))]
    /\ UNCHANGED <<server, detection, testing, lastRun>>

Next ==
    \/ Tick
    \/ \E r \in EntrypointRequests : Submit(r)
    \/ \E r \in InternalRequests : Submit(r)
    \/ \E r \in HealthRequests : Submit(r)
    \/ Resubmit
    \/ CrossSubmit
    \/ Deliver
    \/ \E s \in DOMAIN inflight : \E r \in ConcurrentRequests : ArriveMeanwhile(s, r)
    \/ \E s \in DOMAIN inflight : EntrypointCall(s)
    \/ \E s \in DOMAIN inflight : InternalKeyCheck(s)
    \/ \E s \in DOMAIN inflight : InternalCall(s)
    \/ \E s \in DOMAIN inflight : Respond(s)
    \/ \E s \in DOMAIN inflight : HealthHandler(s)

Spec == Init /\ [][Next]_vars

----------------------------------------------------------------------------
(* Vocabulary of the properties *)

\* a request has been answered with a result
Served ==
    /\ pc = "done"
    /\ request.endpoint \in {"entrypoint", "internal"}
    /\ response.status = 200

\* the input of the request in flight (of a request that carries one)
Input == servedInput(request)

Range(seq) == {seq[i] : i \in 1..Len(seq)}

\* two characters are the same letter, in whatever case
SameLetter(c, d) ==
    \/ c = d
    \/ c \in DOMAIN UpperToLower /\ UpperToLower[c] = d
    \/ d \in DOMAIN UpperToLower /\ UpperToLower[d] = c

\* two strings are equal ignoring letter case
EqualIgnoringCase(a, b) ==
    Len(a) = Len(b) /\ \A i \in 1..Len(a) : SameLetter(a[i], b[i])

\* the candidate list of the chain of the request in flight
Candidates == mockOpportunities(gasCostFor(Input.chain_id))

\* the request in flight names token addresses to filter by
HasTokenFilter == Input.token_addresses.defined /\ Len(Input.token_addresses.value) > 0

\* opp is one of the tokens the request in flight asks for, ignoring letter case
Requested(opp) ==
    \E i \in 1..Len(Input.token_addresses.value) :
        EqualIgnoringCase(opp.token_address, Input.token_addresses.value[i])

----------------------------------------------------------------------------
(* C1 - C2: ordering of the returned list *)

\* C1 (as claimed): a returned list of two or more opportunities is ordered by
\* non-increasing net profit: no element has a strictly larger net profit than
\* an element before it.
C1_SortedByNetProfit ==
    Served =>
        \A i, j \in 1..Len(response.body.opportunities) :
            i < j => response.body.opportunities[i].net_profit_usd
                         >= response.body.opportunities[j].net_profit_usd

\* C2 (as claimed): the first reported route is the one with the largest net
\* profit, and when no route is profitable it is marked not profitable.
C2_BestRouteFirst ==
    (Served /\ Len(response.body.opportunities) >= 1) =>
        LET opps == response.body.opportunities
        IN  /\ \A i \in 1..Len(opps) : opps[1].net_profit_usd >= opps[i].net_profit_usd
            /\ (\A i \in 1..Len(opps) : opps[i].net_profit_usd <= 0) => ~opps[1].executable

----------------------------------------------------------------------------
(* C3: net profit *)

\* C3 (as claimed): the net profit of every reported route is the gross profit on
\* the $1000 notional minus the gas cost minus the DEX fee of 30 bps of the
\* notional ($3.00); for USDC on Base (gas 0.01) that is 0.99 USD, profitable.
C3_NetOfGasAndFees ==
    Served =>
        \A i \in 1..Len(response.body.opportunities) :
            LET opp == response.body.opportunities[i]
                dexFeeUsd == (30 * 1000 * 100) \div 10000
            IN  /\ opp.net_profit_usd = opp.profit_usd_per_1k - opp.gas_cost_usd - dexFeeUsd
                /\ (opp.token_symbol = "USDC" /\ opp.gas_cost_usd = 1)
                       => (opp.net_profit_usd = 99 /\ opp.executable)

----------------------------------------------------------------------------
(* C4: net never exceeds gross *)

\* C4: for every returned opportunity, whatever the chain_id (listed or not),
\* net_profit_usd <= profit_usd_per_1k.
C4_NetAtMostGross ==
    Served =>
        \A i \in 1..Len(response.body.opportunities) :
            response.body.opportunities[i].net_profit_usd
                <= response.body.opportunities[i].profit_usd_per_1k

\* a result for a chain the gas table lists and one for a chain it does not
C4_Witness ==
    /\ Served
    /\ Len(response.body.opportunities) = 3
    /\ Input.chain_id \notin DOMAIN CHAIN_GAS_COSTS

----------------------------------------------------------------------------
(* C5: gross spread against the reported prices *)

\* C5 (as claimed): profit_percentage = (sell_price - buy_price) / buy_price * 100
\* exactly, for the prices of the same record (in basis points:
\* gross_spread_bps * buy_price = (sell_price - buy_price) * 10000).
C5_SpreadExact ==
    Served =>
        \A i \in 1..Len(response.body.opportunities) :
            LET opp == response.body.opportunities[i]
            IN  opp.profit_percentage * opp.buy_price
                    = (opp.sell_price - opp.buy_price) * 10000

\* C5 (amended): profit_percentage is (sell_price - buy_price) / buy_price * 100
\* cut to two decimals: the reported spread in whole basis points is at most the
\* exact spread and less than one basis point below it.
C5_SpreadToTheBasisPoint ==
    Served =>
        \A i \in 1..Len(response.body.opportunities) :
            LET opp == response.body.opportunities[i]
                exact == (opp.sell_price - opp.buy_price) * 10000
            IN  /\ opp.profit_percentage * opp.buy_price <= exact
                /\ exact < (opp.profit_percentage + 1) * opp.buy_price

\* a result with all three candidates
C5_Witness ==
    /\ Served
    /\ {o.token_symbol : o \in Range(response.body.opportunities)} = {"USDC", "WETH", "USDT"}

----------------------------------------------------------------------------
(* C6: the gas cost of a chain the table does not list *)

\* C6 (as claimed): when chain_id is absent from the gas-cost table the routes
\* are dropped from the result.
C6_UnlistedChainDropped ==
    (Served /\ Input.chain_id \notin DOMAIN CHAIN_GAS_COSTS) =>
        response.body.opportunities = <<>>

----------------------------------------------------------------------------
(* C7: the minimum-profit threshold *)

\* C7: every returned opportunity has profit_percentage >= min_profit_pct, and
\* every candidate with profit_percentage >= min_profit_pct that passes the
\* token filter is returned, one at the threshold included.
C7_ThresholdExact ==
    Served =>
        /\ \A i \in 1..Len(response.body.opportunities) :
               response.body.opportunities[i].profit_percentage >= Input.min_profit_pct
        /\ \A i \in 1..Len(Candidates) :
               (/\ Candidates[i].profit_percentage >= Input.min_profit_pct
                /\ (HasTokenFilter => Requested(Candidates[i])))
                   => Candidates[i] \in Range(response.body.opportunities)

\* a returned opportunity sits exactly at the threshold, another candidate is cut
C7_Witness ==
    /\ Served
    /\ \E i \in 1..Len(response.body.opportunities) :
           response.body.opportunities[i].profit_percentage = Input.min_profit_pct
    /\ \E i \in 1..Len(Candidates) :
           Candidates[i].profit_percentage < Input.min_profit_pct

----------------------------------------------------------------------------
(* C8: the token filter *)

\* C8: with a non-empty token_addresses the result is exactly the threshold-
\* passing candidates whose address equals one of the given ones ignoring letter
\* case; with token_addresses absent or empty it is the threshold-passing
\* candidates.
C8_TokenFilter ==
    Served =>
        LET passing ==
                SelectSeq(Candidates,
                          LAMBDA opp : opp.profit_percentage >= Input.min_profit_pct)
        IN  IF HasTokenFilter
            THEN response.body.opportunities = SelectSeq(passing, Requested)
            ELSE response.body.opportunities = passing

\* a filter naming an address in another case than the candidate list spells it
\* keeps that candidate and cuts another one that passes the threshold
C8_Witness ==
    /\ Served
    /\ HasTokenFilter
    /\ \E i \in 1..Len(response.body.opportunities) :
           /\ Requested(response.body.opportunities[i])
           /\ response.body.opportunities[i].token_address
                  \notin Range(Input.token_addresses.value)
    /\ \E i \in 1..Len(Candidates) :
           /\ Candidates[i].profit_percentage >= Input.min_profit_pct
           /\ Candidates[i] \notin Range(response.body.opportunities)

----------------------------------------------------------------------------
(* C9: determinism *)

\* the request of slot s was served with a result
SlotServed(s) ==
    /\ inflight[s].pc = "done"
    /\ inflight[s].request.endpoint \in {"entrypoint", "internal"}
    /\ inflight[s].response.status = 200

\* C9: two runs with the same chain_id, min_profit_pct and token_addresses give
\* the same report, whatever lies between them (time, the requests of another
\* client, a detection run that overlaps): a request re-sent unchanged gets the
\* status and the routes of the run before, in the same order with the same
\* prices, gas cost, net profit and profitability flags, and so do two clients
\* that send the same input.
C9_Deterministic ==
    /\ (pc = "done" /\ previous # NoResponse) =>
           /\ response.status = previous.status
           /\ Served =>
                  /\ response.body.opportunities = previous.body.opportunities
                  /\ response.body.total_found = previous.body.total_found
    /\ \A s, t \in DOMAIN inflight :
           (/\ SlotServed(s) /\ SlotServed(t)
            /\ servedInput(inflight[s].request) = servedInput(inflight[t].request))
               => /\ inflight[s].response.body.opportunities
                         = inflight[t].response.body.opportunities
                  /\ inflight[s].response.body.total_found
                         = inflight[t].response.body.total_found

\* a second run of the same request returned routes at a later time, after the
\* detection run of another client's request, with another list, had come in
\* between its own run and its response
C9_Witness ==
    /\ pc = "done"
    /\ previous # NoResponse
    /\ Served
    /\ Len(response.body.opportunities) >= 2
    /\ response.body.timestamp # previous.body.timestamp
    /\ inflight[1].raced

----------------------------------------------------------------------------
(* C10: a request that no candidate survives *)

\* C10 (as claimed): a successful report never has zero routes: when no
\* candidate survives, the request fails.
C10_NoEmptyReport ==
    Served => Len(response.body.opportunities) >= 1

----------------------------------------------------------------------------
(* C14: validation before detection *)

\* the body of the internal request in flight does not pass the schema
FailsSchema ==
    request.body.kind = "json" /\ ~ArbitrageInputSchema_parse(request.body).ok

\* C14 (as claimed): a request that fails input validation, in particular one
\* with amount_in = 0, is rejected before dispatch: findArbitrage is never
\* invoked for it.
C14_InvalidInputRejected ==
    (/\ pc = "done"
     /\ request.endpoint = "internal"
     /\ request.body.kind = "json"
     /\ (FailsSchema \/ request.body.amount_in = Num(0)))
        => (~ran /\ response.status # 200)

----------------------------------------------------------------------------
(* C15: what an error response tells the caller *)

\* the internal request in flight got as far as reading its body
PassedKeyCheck ==
    /\ INTERNAL_API_KEY.defined
    /\ INTERNAL_API_KEY.value # ""
    /\ request.apiKey = INTERNAL_API_KEY

\* the message of the error the handler of the request in flight catches
ThrownMessage ==
    IF ~reqJson(request.body).ok
    THEN reqJson(request.body).message
    ELSE ArbitrageInputSchema_parse(request.body).message

\* C15 (as claimed): the body of a failure response never contains the text of
\* the error that was caught.
C15_NoErrorTextInResponse ==
    (/\ pc = "done"
     /\ request.endpoint = "internal"
     /\ PassedKeyCheck
     /\ (~reqJson(request.body).ok \/ FailsSchema))
        => (response.status >= 400 /\ response.body.error # ThrownMessage)

----------------------------------------------------------------------------
(* C16: the key of the internal endpoint *)

\* C16: the internal endpoint runs findArbitrage and returns results only for a
\* request whose X-Internal-API-Key equals the configured INTERNAL_API_KEY; with
\* a key configured, a request with a missing or different key gets 401 and
\* findArbitrage is not run.
C16_InternalKeyRequired ==
    (pc = "done" /\ request.endpoint = "internal") =>
        /\ (response.status = 200 \/ ran) =>
               (INTERNAL_API_KEY.defined /\ request.apiKey = INTERNAL_API_KEY)
        /\ (/\ INTERNAL_API_KEY.defined
            /\ INTERNAL_API_KEY.value # ""
            /\ request.apiKey # INTERNAL_API_KEY)
               => (response.status = 401 /\ ~ran)

\* a request without the header was turned away by a server that has a key
C16_Witness ==
    /\ pc = "done"
    /\ request.endpoint = "internal"
    /\ INTERNAL_API_KEY = Some("k1")
    /\ request.apiKey = Undefined
    /\ request.body.kind = "json"
    /\ response.status = 401

----------------------------------------------------------------------------
(* C17: payment of the paid entrypoint *)

\* C17: with payment enforcement on, a request to the entrypoint that carries no
\* payment gets 402 and the handler is not run; a result is returned through the
\* entrypoint only to a request that carries a payment.
C17_PaymentRequired ==
    (pc = "done" /\ request.endpoint = "entrypoint" /\ ~FREE_MODE) =>
        /\ ~request.payment.defined => (response.status = 402 /\ ~ran)
        /\ (response.status = 200 \/ ran) => request.payment.defined

\* an unpaid request was answered 402 under enforcement
C17_Witness ==
    /\ pc = "done"
    /\ request.endpoint = "entrypoint"
    /\ ~FREE_MODE
    /\ request.payment = NoPayment
    /\ response.status = 402

----------------------------------------------------------------------------
(* C18: the price *)

\* C18 (as claimed): the price of one request is 0.05 USDC (50000 smallest
\* units), as the default price of the agent and as the price of the entrypoint,
\* which is what an unpaid request is asked for.
C18_PriceIsFiveCents ==
    (pc = "done" /\ request.endpoint = "entrypoint" /\ response.status = 402) =>
        /\ toAtomicUnits(defaultPrice) = 50000
        /\ toAtomicUnits(price) = 50000
        /\ response.body.accepts[1].maxAmountRequired = "50000"

----------------------------------------------------------------------------
(* C19: /health *)

\* C19: GET /health with no payment and no key is answered 200, whether payment
\* enforcement is on or off and whatever INTERNAL_API_KEY is, and runs no
\* detection.
C19_HealthIsFree ==
    (pc = "done" /\ request.endpoint = "health") => (response.status = 200 /\ ~ran)

\* /health answered under payment enforcement by a server without an internal key
C19_Witness ==
    /\ pc = "done"
    /\ request.endpoint = "health"
    /\ ~FREE_MODE
    /\ INTERNAL_API_KEY = Undefined
    /\ response.status = 200

----------------------------------------------------------------------------
(* C20: the two endpoints agree *)

\* C20: for the same valid input, an authorised internal request and a paid
\* entrypoint request return the same opportunities and the same total_found.
C20_EndpointsAgree ==
    (Served /\ other # NoResponse) =>
        /\ response.body.opportunities = other.body.opportunities
        /\ response.body.total_found = other.body.total_found

\* the internal endpoint answered an input with a token filter that the
\* entrypoint had answered before, and the filter cut a candidate
C20_Witness ==
    /\ Served
    /\ other # NoResponse
    /\ request.endpoint = "internal"
    /\ HasTokenFilter
    /\ Len(response.body.opportunities) >= 1
    /\ Len(response.body.opportunities)
           < Len(findArbitrage(Input.chain_id, Input.min_profit_pct, Undefined))

----------------------------------------------------------------------------
(* C21: a single route *)

\* the opportunities of the served response
Returned == response.body.opportunities

\* C21 (as claimed): when only one route exists for a request, it is reported
\* and marked not profitable (executable = false) with a net spread of 0.
C21_SingleRouteNotProfitable ==
    (Served /\ Len(Returned) = 1) =>
        /\ ~Returned[1].executable
        /\ Returned[1].net_profit_usd = 0

----------------------------------------------------------------------------
(* C24: the internal endpoint without a configured key *)

\* C24: with INTERNAL_API_KEY unset or empty, every request to the internal
\* endpoint is answered 500 "Server configuration error" and findArbitrage is
\* not run, a request without the X-Internal-API-Key header included.
C24_UnsetKeyIsServerError ==
    (/\ pc = "done"
     /\ request.endpoint = "internal"
     /\ (~INTERNAL_API_KEY.defined \/ INTERNAL_API_KEY.value = "")) =>
        /\ response.status = 500
        /\ response.body.error = "Server configuration error"
        /\ ~ran

\* a request without the header was answered 500 by a server without a key
C24_Witness ==
    /\ pc = "done"
    /\ request.endpoint = "internal"
    /\ INTERNAL_API_KEY = Undefined
    /\ request.apiKey = Undefined
    /\ request.body.kind = "json"
    /\ response.status = 500

----------------------------------------------------------------------------
(* C25: total_found *)

\* C25: in every successful response of the entrypoint and of the internal
\* endpoint, total_found is the number of elements of opportunities.
C25_TotalFoundIsLength ==
    Served => response.body.total_found = Len(Returned)

\* the internal endpoint returned two of the three candidates
C25_Witness ==
    /\ Served
    /\ request.endpoint = "internal"
    /\ Len(Returned) = 2
    /\ response.body.total_found = 2

----------------------------------------------------------------------------
(* C26: net profit and executable *)

\* C26: for every returned opportunity, on every chain_id, net_profit_usd =
\* profit_usd_per_1k - gas_cost_usd, and executable is true exactly when
\* net_profit_usd > 0.
C26_NetAndExecutable ==
    Served =>
        /\ \A i \in 1..Len(Returned) :
               /\ Returned[i].net_profit_usd =
                      Returned[i].profit_usd_per_1k - Returned[i].gas_cost_usd
               /\ Returned[i].executable <=> (Returned[i].net_profit_usd > 0)
        /\ \A c \in ChainIds : \A opp \in Range(findArbitrage(c, 0, Undefined)) :
               /\ opp.net_profit_usd = opp.profit_usd_per_1k - opp.gas_cost_usd
               /\ opp.executable <=> (opp.net_profit_usd > 0)

\* one response holds an executable opportunity and one that is not
C26_Witness ==
    /\ Served
    /\ \E i, j \in 1..Len(Returned) :
           /\ Returned[i].executable /\ Returned[i].net_profit_usd > 0
           /\ ~Returned[j].executable /\ Returned[j].net_profit_usd < 0

----------------------------------------------------------------------------
(* C27: what chain_id changes *)

\* two opportunities agree in everything but the gas-dependent fields
SameButGas(a, b) ==
    /\ a.token_symbol = b.token_symbol
    /\ a.token_address = b.token_address
    /\ a.buy_dex = b.buy_dex
    /\ a.sell_dex = b.sell_dex
    /\ a.buy_price = b.buy_price
    /\ a.sell_price = b.sell_price
    /\ a.profit_percentage = b.profit_percentage
    /\ a.profit_usd_per_1k = b.profit_usd_per_1k

\* C27: for fixed min_profit_pct and token_addresses, the opportunities returned
\* for any other chain_id are the same in the same order up to gas_cost_usd,
\* net_profit_usd and executable; within one response gas_cost_usd is the same
\* for every opportunity.
C27_ChainChangesGasOnly ==
    Served =>
        /\ \A c \in ChainIds :
               LET elsewhere == findArbitrage(c, Input.min_profit_pct, Input.token_addresses)
               IN  /\ Len(elsewhere) = Len(Returned)
                   /\ \A i \in 1..Len(Returned) : SameButGas(elsewhere[i], Returned[i])
        /\ \A i, j \in 1..Len(Returned) :
               Returned[i].gas_cost_usd = Returned[j].gas_cost_usd

\* on Ethereum no returned opportunity is executable, while Base has executable
\* ones for the same input
C27_Witness ==
    /\ Served
    /\ Input.chain_id = 1
    /\ Len(Returned) >= 2
    /\ \A i \in 1..Len(Returned) : ~Returned[i].executable
    /\ \E opp \in Range(findArbitrage(8453, Input.min_profit_pct, Input.token_addresses)) :
           opp.executable

----------------------------------------------------------------------------
(* C28: the filters *)

\* the candidates that are among the elements of seq, in the candidates' order
Kept(seq) == SelectSeq(Candidates, LAMBDA opp : opp \in Range(seq))

\* the two filters applied one after the other, the token filter first
TokenThenThreshold ==
    SelectSeq(SelectSeq(Candidates, LAMBDA opp : matchesToken(opp, Input.token_addresses.value)),
              LAMBDA opp : passesThreshold(opp, Input.min_profit_pct))

\* C28: the result is a subsequence of the candidate list in its order; raising
\* min_profit_pct never adds an opportunity, neither does a token filter added
\* to a request that had none; the two filters give the same result in either
\* order.
C28_FilterMonotone ==
    Served =>
        /\ Returned = Kept(Returned)
        /\ \A m \in MinProfitPcts :
               m >= Input.min_profit_pct =>
                   Range(findArbitrage(Input.chain_id, m, Input.token_addresses))
                       \subseteq Range(Returned)
        /\ ~HasTokenFilter =>
               \A t \in TokenAddressChoices :
                   Range(findArbitrage(Input.chain_id, Input.min_profit_pct, t))
                       \subseteq Range(Returned)
        /\ HasTokenFilter => Returned = TokenThenThreshold

\* both filters cut a candidate each and one opportunity is left
C28_Witness ==
    /\ Served
    /\ HasTokenFilter
    /\ Len(Returned) = 1
    /\ Len(findArbitrage(Input.chain_id, 0, Input.token_addresses)) = 2
    /\ Len(findArbitrage(Input.chain_id, Input.min_profit_pct, Undefined)) = 2

----------------------------------------------------------------------------
(* The Arbitrage Orchestrator of one detection request (spec 4.5, 4.6, 5, 7): *)
(* arbitrage_detector.py, of which this repository's sources hold only the *)
(* caller.  USD amounts in cents.                                          *)

\* most chains one detection request names; two chains with four quote sources
\* each already give more routes than a report has room for
MaxChains == 3
\* alt_routes holds at most this many routes
MaxAltRoutes == 5

\* chains a request can name
ChainPool == {1, 137, 8453, 42161}
\* profit_usd, confidence_score and gas_cost_usd of the routes a chain can give
RouteShapes == {<<200, 90, 10>>, <<200, 80, 10>>, <<200, 90, 20>>, <<100, 90, 10>>}
\* the routes the quote sources of one chain can give, in the order the chain's
\* task lists them: one source answers, or four do, two of them with routes that
\* tie on all three keys
SourceQuotes ==
    {<<shape>> : shape \in RouteShapes} \cup
    {<< <<200, 90, 10>>, <<100, 90, 10>>, <<200, 90, 10>>, <<200, 80, 10>> >>}
\* error kinds of a failed quote or gas fetch
ErrorKinds == {"QuoteSourceError", "GasSourceError"}

\* an empty slot of the result buffer
EmptySlot == [filled |-> FALSE, ok |-> FALSE, routes |-> <<>>, kind |-> ""]
\* the result message of a chain task that produced routes, one per quote source
RouteResult(c, quotes) ==
    [ filled |-> TRUE, ok |-> TRUE,
      routes |-> [i \in 1..Len(quotes) |->
                     [chain_id |-> c, dex_source |-> i, profit_usd |-> quotes[i][1],
                      confidence_score |-> quotes[i][2], gas_cost_usd |-> quotes[i][3]]],
      kind |-> "" ]
\* the result message of a chain task whose quote or gas fetch failed
SkipResult(kind) == [filled |-> TRUE, ok |-> FALSE, routes |-> <<>>, kind |-> kind]
\* what the task of chain c can end with
TaskResults(c) ==
    {RouteResult(c, quotes) : quotes \in SourceQuotes} \cup
    {SkipResult(k) : k \in ErrorKinds}

\* the completion barrier: every requested chain has delivered its result
allCollected(buf, cs) == \A c \in cs : buf[c].filled

\* Mutant: one failed chain fails the whole request.
proceeds_allOrNothing(buf, cs) == \A c \in cs : buf[c].ok

\* partial failure policy: go on with the successful subset if there is one
proceeds(buf, cs) == \E c \in cs : buf[c].ok

\* the skipped chains and why
skippedChains(buf, cs) ==
    {[chain_id |-> c, kind |-> buf[c].kind] : c \in {d \in cs : buf[d].filled /\ ~buf[d].ok}}

\* Mutant: Aggregating hands its routes straight to the report.
advance_skipRanked(state) ==
    CASE state = "Dispatched"  -> "Collecting"
      [] state = "Collecting"  -> "Aggregating"
      [] state = "Aggregating" -> "Completed"
      [] state = "Ranked"      -> "Completed"
      [] OTHER                 -> state

\* Dispatched -> Collecting -> Aggregating -> Ranked -> Completed
advance(state) ==
    CASE state = "Dispatched"  -> "Collecting"
      [] state = "Collecting"  -> "Aggregating"
      [] state = "Aggregating" -> "Ranked"
      [] state = "Ranked"      -> "Completed"
      [] OTHER                 -> state

\* the elements of a sequence
Range1(seq) == {seq[i] : i \in 1..Len(seq)}

RECURSIVE ascending(_)
\* a finite set of numbers as an ascending sequence
ascending(set) ==
    IF set = {} THEN <<>>
    ELSE LET least == CHOOSE x \in set : \A y \in set : x <= y
         IN  <<least>> \o ascending(set \ {least})

RECURSIVE routesOf(_, _)
\* the routes in the slots of the chains named by seq, in that order, the routes
\* of one slot in the order of its result message
routesOf(buf, seq) ==
    IF seq = <<>> THEN <<>>
    ELSE (IF buf[Head(seq)].ok THEN buf[Head(seq)].routes ELSE <<>>)
             \o routesOf(buf, Tail(seq))

\* Mutant: the candidates are taken in the order the result messages arrived.
collect_arrivalOrder(buf, arrived) == routesOf(buf, arrived)

\* the candidates read from the buffer after the barrier, slot by slot in chain_id
\* order, whatever order the result messages arrived in
collect(buf, arrived) == routesOf(buf, ascending(Range1(arrived)))

\* the Ranker's order: route a goes before route b
ranksBefore(a, b) ==
    \/ a.profit_usd > b.profit_usd
    \/ /\ a.profit_usd = b.profit_usd
       /\ a.confidence_score > b.confidence_score
    \/ /\ a.profit_usd = b.profit_usd
       /\ a.confidence_score = b.confidence_score
       /\ a.gas_cost_usd < b.gas_cost_usd

RECURSIVE insertRoute(_, _)
\* route put into a sorted sequence, behind the routes it does not go before
insertRoute(route, sorted) ==
    IF sorted = <<>> THEN <<route>>
    ELSE IF ranksBefore(route, Head(sorted)) THEN <<route>> \o sorted
    ELSE <<Head(sorted)>> \o insertRoute(route, Tail(sorted))

RECURSIVE rank(_)
\* the Ranker's deterministic (stable) sort of the candidates
rank(candidates) ==
    IF candidates = <<>> THEN <<>>
    ELSE insertRoute(candidates[Len(candidates)],
                     rank(SubSeq(candidates, 1, Len(candidates) - 1)))

\* the first n elements of a sequence
firstN(seq, n) == SubSeq(seq, 1, IF Len(seq) < n THEN Len(seq) ELSE n)

\* the report of a request that has ranked routes
okReport(routes, skipped) ==
    [ status     |-> "ok",
      best_route |-> Head(routes),
      alt_routes |-> firstN(Tail(routes), MaxAltRoutes),
      skipped    |-> skipped,
      error      |-> "" ]

\* the failure of a request that has no route
failedReport(skipped) ==
    [ status |-> "error", best_route |-> NoRoute, alt_routes |-> <<>>,
      skipped |-> skipped, error |-> "NoRoutesAvailable" ]

\* A detection request for one to MaxChains chains has been dispatched.
DetectInit ==
    /\ INTERNAL_API_KEY = Undefined
    /\ FREE_MODE = TRUE
    /\ now = 0
    /\ previous = NoResponse
    /\ other = NoResponse
    /\ reqState = "Dispatched"
    /\ chains \in {cs \in SUBSET ChainPool : Cardinality(cs) \in 1..MaxChains}
    /\ buffer = [c \in chains |-> EmptySlot]
    /\ completed = <<>>
    /\ ranked = <<>>
    /\ report = NoReport
    /\ script = NoScript
    /\ answers = <<>>
    /\ inflight = [s \in Slots |-> FreeSlot]
    /\ lastRun = <<>>

\* The per-chain tasks are running.
StartCollecting ==
    /\ reqState = "Dispatched"
    /\ reqState' = advance(reqState)
    /\ UNCHANGED <<server, testing, concurrent, chains, buffer, completed, ranked, report>>

\* The task of chain c ends, with a route or with the error of its quote or gas
\* fetch (a timeout included), and its result message fills the slot of c.
ChainTaskCompletes(c, result) ==
    /\ reqState = "Collecting"
    /\ ~buffer[c].filled
    /\ buffer' = [buffer EXCEPT ![c] = result]
    /\ completed' = Append(completed, c)
    /\ UNCHANGED <<server, testing, concurrent, reqState, chains, ranked, report>>

\* Past the barrier with at least one route.
Aggregate ==
    /\ reqState = "Collecting"
    /\ allCollected(buffer, chains)
    /\ proceeds(buffer, chains)
    /\ reqState' = advance(reqState)
    /\ UNCHANGED <<server, testing, concurrent, chains, buffer, completed, ranked, report>>

\* Past the barrier with no route: NoRoutesAvailable.
Fail ==
    /\ reqState = "Collecting"
    /\ allCollected(buffer, chains)
    /\ ~proceeds(buffer, chains)
    /\ reqState' = "Failed"
    /\ report' = failedReport(skippedChains(buffer, chains))
    /\ UNCHANGED <<server, testing, concurrent, chains, buffer, completed, ranked>>

\* The Ranker sorts the candidates.
Rank ==
    /\ reqState = "Aggregating"
    /\ ranked' = rank(collect(buffer, completed))
    /\ reqState' = advance(reqState)
    /\ UNCHANGED <<server, testing, concurrent, chains, buffer, completed, report>>

\* The report is produced.
Complete ==
    /\ reqState = "Ranked"
    /\ report' = okReport(ranked, skippedChains(buffer, chains))
    /\ reqState' = advance(reqState)
    /\ UNCHANGED <<server, testing, concurrent, chains, buffer, completed, ranked>>

DetectNext ==
    \/ StartCollecting
    \/ \E c \in chains : \E result \in TaskResults(c) : ChainTaskCompletes(c, result)
    \/ Aggregate
    \/ Fail
    \/ Rank
    \/ Complete

DetectSpec == DetectInit /\ [][DetectNext]_vars

----------------------------------------------------------------------------
(* Properties of the orchestrator *)

\* the requested chains whose task gave a route, and those whose fetch failed
Succeeded == {c \in chains : buffer[c].filled /\ buffer[c].ok}
FailedChains == {c \in chains : buffer[c].filled /\ ~buffer[c].ok}

\* the routes of the chains that succeeded
SucceededRoutes == UNION {Range1(buffer[c].routes) : c \in Succeeded}

\* the routes of the report, best first
ReportRoutes ==
    IF report.status = "ok" THEN <<report.best_route>> \o report.alt_routes ELSE <<>>

\* the most routes a report holds: best_route and a full alt_routes
ReportRoom == MaxAltRoutes + 1

\* C11 as claimed: when the quote or gas fetch fails for some but not all
\* requested chains, the request is never failed as a whole, and its report
\* holds the routes of every chain that succeeded and lists every failed chain
\* with its error kind.
C11_EveryRouteReported ==
    (allCollected(buffer, chains) /\ Succeeded # {} /\ FailedChains # {}) =>
        /\ reqState # "Failed"
        /\ report.status # "error"
        /\ reqState = "Completed" =>
               /\ report.status = "ok"
               /\ Range1(ReportRoutes) = SucceededRoutes
               /\ report.skipped =
                      {[chain_id |-> c, kind |-> buffer[c].kind] : c \in FailedChains}

\* C11: when the quote or gas fetch fails for some but not all requested chains,
\* the request is never failed as a whole, and its report lists every failed
\* chain with its error kind and holds the routes of the chains that succeeded:
\* every one of them while they fit in best_route and the capped alt_routes,
\* and otherwise as many as fit, none left out ranking before one that is in.
C11_PartialFailure ==
    (allCollected(buffer, chains) /\ Succeeded # {} /\ FailedChains # {}) =>
        /\ reqState # "Failed"
        /\ report.status # "error"
        /\ reqState = "Completed" =>
               /\ report.status = "ok"
               /\ Range1(ReportRoutes) \subseteq SucceededRoutes
               /\ Cardinality(Range1(ReportRoutes)) = Len(ReportRoutes)
               /\ Len(ReportRoutes) =
                      IF Cardinality(SucceededRoutes) <= ReportRoom
                      THEN Cardinality(SucceededRoutes) ELSE ReportRoom
               /\ \A left \in SucceededRoutes \ Range1(ReportRoutes) :
                      \A kept \in Range1(ReportRoutes) : ~ranksBefore(left, kept)
               /\ report.skipped =
                      {[chain_id |-> c, kind |-> buffer[c].kind] : c \in FailedChains}

\* one chain of three failed, the other two gave more routes than the report
\* has room for, and the report is full
C11_Witness ==
    /\ reqState = "Completed"
    /\ Cardinality(chains) = 3
    /\ Cardinality(FailedChains) = 1
    /\ Cardinality(SucceededRoutes) > ReportRoom
    /\ Len(ReportRoutes) = ReportRoom
    /\ \E e \in report.skipped : e.kind = "GasSourceError"

\* the steps the state machine allows
Steps ==
    { <<"Dispatched", "Collecting">>, <<"Collecting", "Aggregating">>,
      <<"Aggregating", "Ranked">>, <<"Ranked", "Completed">>,
      <<"Collecting", "Failed">> }

\* C12: a detection request moves Dispatched, Collecting, Aggregating, Ranked,
\* Completed in that order, one step at a time and never back, and it enters
\* Failed only from Collecting and only when every chain fetch has failed.
C12_StateMachine ==
    [][ /\ reqState' # reqState => <<reqState, reqState'>> \in Steps
        /\ reqState' = "Failed" =>
               (allCollected(buffer, chains) /\ Succeeded = {})
      ]_vars

\* a request of two chains failed with both fetches failed
C12_Witness ==
    /\ reqState = "Failed"
    /\ Cardinality(chains) = 2
    /\ FailedChains = chains
    /\ report.error = "NoRoutesAvailable"

\* route a stands before route b in every report that holds both: the Ranker's
\* order, and chain_id, then the place in the chain's result message, for routes
\* the Ranker's three keys do not tell apart
Precedes(a, b) ==
    \/ ranksBefore(a, b)
    \/ /\ ~ranksBefore(b, a)
       /\ \/ a.chain_id < b.chain_id
          \/ a.chain_id = b.chain_id /\ a.dex_source < b.dex_source

\* C13: the order of the routes is fixed by the per-chain results alone, not by
\* the order in which the tasks completed, and ranking starts only after every
\* result has been collected.
C13_OrderIndependent ==
    /\ reqState \in {"Aggregating", "Ranked", "Completed"} =>
           allCollected(buffer, chains)
    /\ reqState \in {"Ranked", "Completed"} =>
           /\ Range1(ranked) = SucceededRoutes
           /\ Len(ranked) = Cardinality(SucceededRoutes)
           /\ \A i, j \in 1..Len(ranked) : i < j => Precedes(ranked[i], ranked[j])
    /\ reqState = "Completed" => ReportRoutes = firstN(ranked, ReportRoom)

\* the report holds two routes that tie on all three keys, of chains whose tasks
\* completed in the order opposite to the one the report lists them in
C13_Witness ==
    /\ reqState = "Completed"
    /\ Len(ReportRoutes) >= 2
    /\ \E i, j \in 1..Len(ReportRoutes) :
           /\ i < j
           /\ ~ranksBefore(ReportRoutes[i], ReportRoutes[j])
           /\ \E m, n \in 1..Len(completed) :
                  /\ m < n
                  /\ completed[m] = ReportRoutes[j].chain_id
                  /\ completed[n] = ReportRoutes[i].chain_id

----------------------------------------------------------------------------
(* test_endpoints.sh (listed in src/BUILD_STATUS.md), a bash script under *)
(* `set -e` *)

\* most tests of one run that the server under test does not pass
MaxNotPassed == 2

\* the test commands in the order the script runs them.  "function": a call of
\* test_endpoint or test_json_field; "inline": an if with a PASS and a FAIL
\* branch; "pass_or_warn": Test 8; "pass_warn_fail": Test 19
TESTS ==
    << [name |-> "Landing Page",        kind |-> "function"],
       [name |-> "Health Check",        kind |-> "function"],
       [name |-> "Chains List",         kind |-> "function"],
       [name |-> "agent.json (GET)",    kind |-> "function"],
       [name |-> "agent.json (HEAD)",   kind |-> "function"],
       [name |-> "x402 Metadata (GET)", kind |-> "function"],
       [name |-> "x402 Metadata (HEAD)", kind |-> "function"],
       [name |-> "Entrypoint (POST)",   kind |-> "pass_or_warn"],
       [name |-> "agent.json name",     kind |-> "function"],
       [name |-> "agent.json URL protocol", kind |-> "inline"],
       [name |-> "Payment Address",     kind |-> "function"],
       [name |-> "Payment Network",     kind |-> "function"],
       [name |-> "Facilitator URL",     kind |-> "function"],
       [name |-> "x402 Version",        kind |-> "function"],
       [name |-> "x402 Network",        kind |-> "function"],
       [name |-> "Base USDC Address",   kind |-> "function"],
       [name |-> "Health Check Chains", kind |-> "inline"],
       [name |-> "Chains Endpoint Data", kind |-> "inline"],
       [name |-> "Arbitrage Endpoint",  kind |-> "pass_warn_fail"],
       [name |-> "Swagger UI",          kind |-> "function"],
       [name |-> "ReDoc",               kind |-> "function"] >>

NumTests == Len(TESTS)

\* The exit statuses of a curl that fails: any status but 0, one of curl's EXIT
\* CODES or 128 + the number of the signal that ended it.  Every curl call of
\* the script but Test 19's ends in `|| echo ...`, which turns a failure into an
\* answer the test does not expect; Test 19's assignment has curl's status,
\* whichever it is.
CurlStatuses == 1..255

\* how a test ends: with PASS, WARN or FAIL, with a failed curl ("curl_failed",
\* curl its exit status), or not at all, in a curl that never returns (no curl
\* call of the script has a time limit)
Outcome(verdict, curl) == [verdict |-> verdict, curl |-> curl]
Passed == Outcome("pass", 0)
Warned == Outcome("warn", 0)
Failed == Outcome("fail", 0)
NoReturn == Outcome("no_return", 0)
CurlFailures == {Outcome("curl_failed", status) : status \in CurlStatuses}

\* how a test of this kind can end other than with PASS
NotPassed(kind) ==
    CASE kind = "pass_or_warn"   -> {Warned, NoReturn}
      [] kind = "pass_warn_fail" -> {Warned, NoReturn} \cup CurlFailures
      [] OTHER                   -> {Failed, NoReturn}

RECURSIVE TestSets(_)
\* the sets of at most k tests
TestSets(k) ==
    IF k = 0 THEN {{}}
    ELSE LET smaller == TestSets(k - 1)
         IN  smaller \cup {set \cup {i} : set \in smaller, i \in 1..NumTests}

RECURSIVE Endings(_)
\* what the tests of set end with when none of them ends with PASS
Endings(set) ==
    IF set = {} THEN {<<>>}
    ELSE LET i == CHOOSE t \in set : TRUE
         IN  {(i :> outcome) @@ rest :
                  outcome \in NotPassed(TESTS[i].kind), rest \in Endings(set \ {i})}

\* a server under test, by what each test ends with: the tests of set as how
\* says, the others with PASS
Server(set, how) == [i \in 1..NumTests |-> IF i \in set THEN how[i] ELSE Passed]

\* ((X++)): the counter after it, and its exit status, which is 1 when the value
\* of the expression, the counter before the increment, is 0
increment(counter) == [value |-> counter + 1, status |-> IF counter = 0 THEN 1 ELSE 0]

\* the script ends with this exit status
exitWith(st, code) == [st EXCEPT !.exited = TRUE, !.status = code]

\* on to the next command
nextCommand(st) == [st EXCEPT !.pc = @ + 1]

\* the script waits in a curl that never returns
waitInCurl(st) == [st EXCEPT !.waiting = TRUE]

\* one test command.  A curl that never returns keeps the script in it.  Under
\* set -e the script ends with the status of the first command that fails
\* outside a condition: ((PASS++)) or ((FAIL++)) whose counter was 0, a call of a
\* test function that returns 1, or the assignment arb_response=$(curl ...) of
\* Test 19, whose status is curl's: the script ends there, before arb_code=$?
\* and ((FAIL++)).
runTest(st, kind, outcome) ==
    IF outcome.verdict = "no_return" THEN waitInCurl(st)
    ELSE IF outcome.verdict = "warn" THEN nextCommand(st)
    ELSE IF outcome.verdict = "curl_failed" THEN exitWith(st, outcome.curl)
    ELSE LET passed == outcome.verdict = "pass"
             inc == increment(IF passed THEN st.PASS ELSE st.FAIL)
             counted == IF passed
                        THEN [st EXCEPT !.PASS = inc.value]
                        ELSE [st EXCEPT !.FAIL = inc.value]
         IN  IF inc.status # 0 THEN exitWith(counted, inc.status)
             ELSE IF kind = "function" /\ ~passed THEN exitWith(counted, 1)
             ELSE nextCommand(counted)

\* === Test Summary ===: TOTAL, PERCENTAGE and the exit. With TOTAL = 0 the
\* division fails, PERCENTAGE stays empty and the script goes on to the test of
\* FAIL, which holds
testSummary(st) ==
    LET reached == [st EXCEPT !.summary = TRUE]
        TOTAL == st.PASS + st.FAIL
    IN  IF st.FAIL = 0 THEN exitWith(reached, 0)
        ELSE LET PERCENTAGE == (st.PASS * 100) \div TOTAL
             IN  IF PERCENTAGE >= 80 THEN exitWith(reached, 0)
                 ELSE exitWith(reached, 1)

\* the command at st.pc
execute(st, outcomes) ==
    IF st.pc <= NumTests
    THEN runTest(st, TESTS[st.pc].kind, outcomes[st.pc])
    ELSE testSummary(st)

\* The script is started against a server with at most MaxNotPassed tests that
\* do not end with PASS: PASS=0, FAIL=0.
TestInit ==
    /\ INTERNAL_API_KEY = Undefined
    /\ FREE_MODE = TRUE
    /\ now = 0
    /\ previous = NoResponse
    /\ other = NoResponse
    /\ reqState = "none"
    /\ chains = {}
    /\ buffer = <<>>
    /\ completed = <<>>
    /\ ranked = <<>>
    /\ report = NoReport
    /\ script = [pc |-> 1, PASS |-> 0, FAIL |-> 0, exited |-> FALSE, status |-> 0,
                 summary |-> FALSE, waiting |-> FALSE]
    /\ \E set \in TestSets(MaxNotPassed) : \E how \in Endings(set) :
           answers = Server(set, how)
    /\ inflight = [s \in Slots |-> FreeSlot]
    /\ lastRun = <<>>

\* The shell runs the next command of the script.
Execute ==
    /\ script.pc >= 1
    /\ ~script.exited
    /\ ~script.waiting
    /\ script' = execute(script, answers)
    /\ UNCHANGED <<server, detection, concurrent, answers>>

TestNext == Execute

TestSpec == TestInit /\ [][TestNext]_vars

\* the tests the server under test fails, and those it passes
FailedTests == {i \in DOMAIN answers : answers[i].verdict \in {"fail", "curl_failed"}}
PassedTests == {i \in DOMAIN answers : answers[i] = Passed}

\* C22 (as claimed): the script runs every one of its tests and then reaches
\* the test summary, whatever the outcome of each test.
C22_RunsToSummary ==
    script.exited => (script.summary /\ script.pc = NumTests + 1)

\* C23 (as claimed): the script exits 0 when no test failed, 0 when at least 80%
\* of the counted tests (PASS + FAIL) passed, and 1 otherwise.
C23_ExitStatus ==
    script.exited =>
        script.status =
            IF FailedTests = {} THEN 0
            ELSE IF Cardinality(PassedTests) * 100
                        >= 80 * (Cardinality(PassedTests) + Cardinality(FailedTests))
                 THEN 0
                 ELSE 1

----------------------------------------------------------------------------
(* Requests served concurrently: the steps of the handlers above, taken by  *)
(* up to MaxInflight requests of the kinds in ConcurrentRequests            *)

\* A server with a key and with payment enforcement on has no request in flight.
ConcInit ==
    /\ INTERNAL_API_KEY = Some("k1")
    /\ FREE_MODE = FALSE
    /\ now = 0
    /\ previous = NoResponse
    /\ other = NoResponse
    /\ reqState = "none"
    /\ chains = {}
    /\ buffer = <<>>
    /\ completed = <<>>
    /\ ranked = <<>>
    /\ report = NoReport
    /\ script = NoScript
    /\ answers = <<>>
    /\ inflight = [s \in Slots |-> FreeSlot]
    /\ lastRun = <<>>

ConcNext ==
    \/ Tick
    \/ \E s \in Slots : \E r \in ConcurrentRequests : Arrive(s, r)
    \/ \E s \in Slots : EntrypointCall(s)
    \/ \E s \in Slots : InternalKeyCheck(s)
    \/ \E s \in Slots : InternalCall(s)
    \/ \E s \in Slots : Respond(s)

ConcSpec == ConcInit /\ [][ConcNext]_vars

\* a response but for the time it was built at
timeless(resp) ==
    IF resp.status = 200 /\ "timestamp" \in DOMAIN resp.body
    THEN [resp EXCEPT !.body = [opportunities |-> @.opportunities, total_found |-> @.total_found]]
    ELSE resp

\* a result but for the time it was built at
found(opportunities) ==
    [status |-> 200,
     body |-> [opportunities |-> opportunities, total_found |-> Len(opportunities)]]

\* the answer of the internal endpoint to request r when it is the only request
\* in flight
internalAlone(r, expectedKey) ==
    IF keyNotSet(expectedKey)
    THEN [status |-> 500, body |-> [error |-> "Server configuration error"]]
    ELSE IF keyMismatch(r.apiKey, expectedKey)
    THEN [status |-> 401, body |-> [error |-> "Unauthorized"]]
    ELSE LET input == reqJson(r.body)
         IN  IF ~input.ok
             THEN caught(input.message)
             ELSE LET validatedInput == ArbitrageInputSchema_parse(input.value)
                  IN  IF ~validatedInput.ok
                      THEN caught(validatedInput.message)
                      ELSE found(internalDetect(validatedInput.data))

\* the response to request r when it is the only request in flight
AloneAnswer(r) ==
    IF r.endpoint = "entrypoint"
    THEN IF paymentRequired(FREE_MODE, r.payment)
         THEN [status |-> 402, body |-> PaymentRequiredBody]
         ELSE found(entrypointDetect(r.input))
    ELSE internalAlone(r, INTERNAL_API_KEY)

\* C29: in every interleaving of requests to the entrypoint and to the internal
\* endpoint, the response to a request is, but for its timestamp, the one its
\* own input gives when the request is served alone.
C29_Isolated ==
    \A s \in Slots :
        inflight[s].pc = "done" =>
            timeless(inflight[s].response) = AloneAnswer(inflight[s].request)

\* a request got its result after another request's detection run had come in
\* between its own run and its response, with a different list
C29_Witness ==
    \E s, t \in Slots :
        /\ s # t
        /\ inflight[s].pc = "done"
        /\ inflight[s].response.status = 200
        /\ inflight[s].raced
        /\ inflight[t].pc \in {"awaiting", "done"}
        /\ inflight[s].request.endpoint # inflight[t].request.endpoint

====
